---------------------------- MODULE Spec2Model ----------------------------
(***************************************************************************)
(* A model of job_scraper.py: the orchestration loop of main(), the        *)
(* location pipeline scrape_location() with its exception routing, and the *)
(* pure helpers get_domain(), build_search_url() and the selector chains.  *)
(*                                                                         *)
(* Python strings whose content the code inspects (locations, table keys,  *)
(* URLs, element texts) are sequences of one-character strings, so that    *)
(* lower(), strip() and the substring test are computed, not assumed.      *)
(* Domains are opaque TLA+ strings: the code only copies them.             *)
(***************************************************************************)
EXTENDS Integers, Sequences, FiniteSets, TLC

VARIABLES
    LOCATIONS,              \* the configured location list
    DOMAINS,                \* the configured (key, domain) table, in insertion order
    MAX_JOBS_PER_LOCATION,  \* the configured cap (any integer)
    site,                   \* the browser/site environment the run meets
    pc,                     \* position of the single thread of control
    idx,                    \* main: the for-loop index (enumerate from 1)
    all_results,            \* main: location -> results, an insertion-ordered dict
    sessions,               \* per location index: "none", "live" or "closed"
    results,                \* scrape_location: the Listings appended so far
    debug_messages,         \* scrape_location: the DebugTrace strings
    domain,                 \* scrape_location: get_domain(location)
    current_url,            \* scrape_location: driver.current_url as read on line 231
    cards,                  \* scrape_location: the located card elements
    selector_used,          \* scrape_location: the strategy that located them
    page,                   \* the document the browser holds when cards are located
    card_i,                 \* scrape_location: cards of the slice already visited
    url,                    \* scrape_location: the search URL built on line 217
    raised,                 \* the exception in flight or that ended the run
    quitCalls,              \* this location: invocations of driver.quit
    getCalls,               \* this location: invocations of driver.get
    findCalls,              \* this location: card-locator find_elements calls
    visited,                \* positions (in cards) the extraction loop visited
    emitted,                \* positions (in cards) whose card produced a Listing
    debugSent,              \* this location: texts handed to send_debug_screenshot
    reports                 \* the calls of send_to_slack, in order

vars == << LOCATIONS, DOMAINS, MAX_JOBS_PER_LOCATION, site, pc, idx,
           all_results, sessions, results, debug_messages, domain,
           current_url, cards, selector_used, page, card_i, url, raised,
           quitCalls, getCalls, findCalls, visited, emitted, debugSent, reports >>

-----------------------------------------------------------------------------
(* Python values *)

\* Python's None, as a value comparable with every string of the model.
None == << "<None>" >>

\* The alphabet of the model: the characters chr(1)..chr(255) but the
\* backquote, chr(96), which no string can hold, and four characters beyond:
\* the space U+1680 and the Greek sigmas U+03A3, U+03C3, U+03C2. What the
\* operators on characters give of any other character is left open.
\* CharsLow[n] is chr(n), and CharsHigh[n] is chr(96 + n).
CharsLow ==
    << "", "", "", "", "", "", "", "",
       "\t", "\n", "", "\f", "\r", "", "", "",
       "", "", "", "", "", "", "", "",
       "", "", "", "", "", "", "", " ",
       "!", "\"", "#", "$", "%", "&", "'", "(",
       ")", "*", "+", ",", "-", ".", "/", "0",
       "1", "2", "3", "4", "5", "6", "7", "8",
       "9", ":", ";", "<", "=", ">", "?", "@",
       "A", "B", "C", "D", "E", "F", "G", "H",
       "I", "J", "K", "L", "M", "N", "O", "P",
       "Q", "R", "S", "T", "U", "V", "W", "X",
       "Y", "Z", "[", "\\", "]", "^", "_" >>

CharsHigh ==
    << "a", "b", "c", "d", "e", "f", "g", "h",
       "i", "j", "k", "l", "m", "n", "o", "p",
       "q", "r", "s", "t", "u", "v", "w", "x",
       "y", "z", "{", "|", "}", "~", "", "",
       "", "", "", "", "", "", "", "",
       "", "", "", "", "", "", "", "",
       "", "", "", "", "", "", "", "",
       "", "", "", "", "", "", "", " ",
       "¡", "¢", "£", "¤", "¥", "¦", "§", "¨",
       "©", "ª", "«", "¬", "­", "®", "¯", "°",
       "±", "²", "³", "´", "µ", "¶", "·", "¸",
       "¹", "º", "»", "¼", "½", "¾", "¿", "À",
       "Á", "Â", "Ã", "Ä", "Å", "Æ", "Ç", "È",
       "É", "Ê", "Ë", "Ì", "Í", "Î", "Ï", "Ð",
       "Ñ", "Ò", "Ó", "Ô", "Õ", "Ö", "×", "Ø",
       "Ù", "Ú", "Û", "Ü", "Ý", "Þ", "ß", "à",
       "á", "â", "ã", "ä", "å", "æ", "ç", "è",
       "é", "ê", "ë", "ì", "í", "î", "ï", "ð",
       "ñ", "ò", "ó", "ô", "õ", "ö", "÷", "ø",
       "ù", "ú", "û", "ü", "ý", "þ", "ÿ" >>

OghamSpace == " "
CapitalSigma == "Σ"
SmallSigma == "σ"
FinalSigma == "ς"

Alphabet ==
    { CharsLow[n] : n \in 1..Len(CharsLow) }
    \cup { CharsHigh[n] : n \in 1..Len(CharsHigh) }
    \cup { OghamSpace, CapitalSigma, SmallSigma, FinalSigma }

\* ord(c)
ord(c) ==
    IF c = OghamSpace THEN 5760
    ELSE IF c = CapitalSigma THEN 931
    ELSE IF c = SmallSigma THEN 963
    ELSE IF c = FinalSigma THEN 962
    ELSE IF \E n \in 1..Len(CharsLow) : CharsLow[n] = c
         THEN CHOOSE n \in 1..Len(CharsLow) : CharsLow[n] = c
    ELSE 96 + (CHOOSE n \in 1..Len(CharsHigh) : CharsHigh[n] = c)

UpperChars == << "A","B","C","D","E","F","G","H","I","J","K","L","M",
                 "N","O","P","Q","R","S","T","U","V","W","X","Y","Z" >>
LowerChars == << "a","b","c","d","e","f","g","h","i","j","k","l","m",
                 "n","o","p","q","r","s","t","u","v","w","x","y","z" >>

\* The upper-case letters of chr(192)..chr(222) and, at the same places,
\* their lower-case forms.
UpperLatin1 ==
    << "À", "Á", "Â", "Ã", "Ä", "Å", "Æ", "Ç",
       "È", "É", "Ê", "Ë", "Ì", "Í", "Î", "Ï",
       "Ð", "Ñ", "Ò", "Ó", "Ô", "Õ", "Ö", "Ø",
       "Ù", "Ú", "Û", "Ü", "Ý", "Þ" >>

LowerLatin1 ==
    << "à", "á", "â", "ã", "ä", "å", "æ", "ç",
       "è", "é", "ê", "ë", "ì", "í", "î", "ï",
       "ð", "ñ", "ò", "ó", "ô", "õ", "ö", "ø",
       "ù", "ú", "û", "ü", "ý", "þ" >>

\* str.lower() on one character, out of context.
LowerChar(c) ==
    IF \E i \in 1..Len(UpperChars) : UpperChars[i] = c
    THEN LowerChars[CHOOSE i \in 1..Len(UpperChars) : UpperChars[i] = c]
    ELSE IF \E i \in 1..Len(UpperLatin1) : UpperLatin1[i] = c
    THEN LowerLatin1[CHOOSE i \in 1..Len(UpperLatin1) : UpperLatin1[i] = c]
    ELSE IF c = CapitalSigma THEN SmallSigma
    ELSE CHOOSE a \in { c } \cap Alphabet : TRUE

\* The cased characters of the alphabet.
Cased ==
    { "A", "B", "C", "D", "E", "F", "G", "H", "I", "J",
      "K", "L", "M", "N", "O", "P", "Q", "R", "S", "T",
      "U", "V", "W", "X", "Y", "Z", "a", "b", "c", "d",
      "e", "f", "g", "h", "i", "j", "k", "l", "m", "n",
      "o", "p", "q", "r", "s", "t", "u", "v", "w", "x",
      "y", "z", "ª", "µ", "º", "À", "Á", "Â", "Ã", "Ä",
      "Å", "Æ", "Ç", "È", "É", "Ê", "Ë", "Ì", "Í", "Î",
      "Ï", "Ð", "Ñ", "Ò", "Ó", "Ô", "Õ", "Ö", "Ø", "Ù",
      "Ú", "Û", "Ü", "Ý", "Þ", "ß", "à", "á", "â", "ã",
      "ä", "å", "æ", "ç", "è", "é", "ê", "ë", "ì", "í",
      "î", "ï", "ð", "ñ", "ò", "ó", "ô", "õ", "ö", "ø",
      "ù", "ú", "û", "ü", "ý", "þ", "ÿ", "Σ", "σ", "ς" }

\* The case-ignorable characters of the alphabet.
CaseIgnorable ==
    { "'", ".", ":", "^", "¨", "­", "¯", "´", "·", "¸" }

\* str.lower() gives a capital sigma its final form when a cased character
\* comes before it and none comes after it, case-ignorable characters
\* skipped on both sides.
IsFinalSigma(s, i) ==
    /\ \E j \in 1..(i - 1) :
          /\ s[j] \in Cased
          /\ \A k \in (j + 1)..(i - 1) : s[k] \in CaseIgnorable
    /\ ~\E j \in (i + 1)..Len(s) :
          /\ s[j] \in Cased
          /\ \A k \in (i + 1)..(j - 1) : s[k] \in CaseIgnorable

\* str.lower()
lower(s) ==
    [i \in 1..Len(s) |->
        IF s[i] = CapitalSigma /\ IsFinalSigma(s, i) THEN FinalSigma
        ELSE LowerChar(s[i])]

\* Python's `sub in s` on strings.
Contains(sub, s) ==
    \E i \in 0..(Len(s) - Len(sub)) : SubSeq(s, i + 1, i + Len(sub)) = sub

\* The characters str.isspace() holds of, which str.strip() removes: the
\* ASCII ones (tab, line feed, vertical tab, form feed, carriage return, the
\* separators 0x1C..0x1F, space) and U+0085, U+00A0, U+1680. No string can
\* hold the others (U+2000..U+200A, U+2028, U+2029, U+202F, U+205F, U+3000).
Whitespace ==
    { "\t", "\n", "", "\f", "\r", "", "", "", "", " ",
      "", " ", " " }

RECURSIVE lstrip(_)
lstrip(s) ==
    IF s # << >> /\ Head(s) \in Whitespace THEN lstrip(Tail(s)) ELSE s

RECURSIVE rstrip(_)
rstrip(s) ==
    IF s # << >> /\ s[Len(s)] \in Whitespace
    THEN rstrip(SubSeq(s, 1, Len(s) - 1))
    ELSE s

\* str.strip()
strip(s) == rstrip(lstrip(s))

\* Python truthiness of a string-or-None value.
Truthy(v) == v # None /\ v # << >>

\* Python's `a or b`.
Or(a, b) == IF Truthy(a) THEN a ELSE b

Min(a, b) == IF a <= b THEN a ELSE b

\* Mutant of SliceTo: the bound is inclusive, as in seq[:k + 1].
SliceToInclusive(seq, k) ==
    IF k >= 0 THEN SubSeq(seq, 1, Min(k + 1, Len(seq))) ELSE << >>

\* Mutant of SliceTo: the cap is not applied.
SliceToNoCap(seq, k) == seq

\* Python's seq[:k] for any integer k.
SliceTo(seq, k) ==
    IF k >= 0
    THEN SubSeq(seq, 1, IF k < Len(seq) THEN k ELSE Len(seq))
    ELSE SubSeq(seq, 1, IF Len(seq) + k > 0 THEN Len(seq) + k ELSE 0)

-----------------------------------------------------------------------------
(* get_domain and build_search_url *)

DefaultDomain == "www.indeed.com"

RECURSIVE LastContained(_, _)
\* Mutant of FirstContained: the loop does not return at the first match,
\* the last contained key wins.
LastContained(table, location_lower) ==
    IF table = << >> THEN DefaultDomain
    ELSE LET rest == LastContained(Tail(table), location_lower)
         IN  IF rest # DefaultDomain THEN rest
             ELSE IF Contains(Head(table).key, location_lower)
                  THEN Head(table).domain
             ELSE DefaultDomain

RECURSIVE FirstContained(_, _)
\* The loop of get_domain over DOMAINS.items(): the first key contained wins.
FirstContained(table, location_lower) ==
    IF table = << >> THEN DefaultDomain
    ELSE IF Contains(Head(table).key, location_lower) THEN Head(table).domain
    ELSE FirstContained(Tail(table), location_lower)

\* Mutant of get_domain_in: the location is not lower-cased.
get_domain_nolower(table, location) == FirstContained(table, location)

\* Lines 153-157 on a given table.

get_domain_in(table, location) == FirstContained(table, lower(location))

get_domain(location) == get_domain_in(DOMAINS, location)

HexDigits ==
    << "0","1","2","3","4","5","6","7","8","9","A","B","C","D","E","F" >>

\* '%{:02X}'.format(byte)
PercentByte(byte) ==
    << "%", HexDigits[(byte \div 16) + 1], HexDigits[(byte % 16) + 1] >>

\* chr(n).encode('utf-8') as a sequence of bytes, for n < 65536.
utf8(n) ==
    IF n < 128 THEN << n >>
    ELSE IF n < 2048 THEN << 192 + (n \div 64), 128 + (n % 64) >>
    ELSE << 224 + (n \div 4096), 128 + ((n \div 64) % 64), 128 + (n % 64) >>

\* The characters urllib.parse.quote never encodes: A-Z a-z 0-9 _ . - ~
AlwaysSafe ==
    { UpperChars[i] : i \in 1..Len(UpperChars) }
    \cup { LowerChars[i] : i \in 1..Len(LowerChars) }
    \cup { "0","1","2","3","4","5","6","7","8","9", "_", ".", "-", "~" }

RECURSIVE PercentBytes(_)
\* ''.join('%{:02X}'.format(byte) for byte in bytes)
PercentBytes(bytes) ==
    IF bytes = << >> THEN << >>
    ELSE PercentByte(Head(bytes)) \o PercentBytes(Tail(bytes))

\* urllib.parse.quote_plus on one character: a safe character is kept, a
\* space becomes "+", any other is the %XX of each byte of its UTF-8 form.
QuoteChar(c) ==
    IF c \in AlwaysSafe THEN << c >>
    ELSE IF c = " " THEN << "+" >>
    ELSE PercentBytes(utf8(ord(c)))

RECURSIVE quote_plus(_)
quote_plus(s) ==
    IF s = << >> THEN << >> ELSE QuoteChar(Head(s)) \o quote_plus(Tail(s))

JOB_TITLE == << "C", "+", "+", " ", "d", "e", "v" >>

build_search_url(dom, job_title, location) ==
    << "https://", dom, "/jobs?q=", quote_plus(job_title),
       "&l=", quote_plus(location), "&sort=date&fromage=7" >>

-----------------------------------------------------------------------------
(* Selector chains: the card locator and the field extractor *)

\* What one find_element attempt on a card gives: it raises (no such
\* element, stale element, ...), or finds an element with a title attribute
\* (None when absent) and a text (None when the driver returns no string).
Raise == [kind |-> "raise", attr |-> None, text |-> << >>]
Elem(attr, text) == [kind |-> "elem", attr |-> attr, text |-> text]

title_selectors == << "h2.jobTitle span[title]", "h2.jobTitle a span",
                      "h2.jobTitle", "a.jcs-JobTitle span", ".jobTitle span",
                      "h2 span[title]" >>
company_selectors == << "[data-testid='company-name']", "span.companyName",
                        ".companyName", "span[data-testid='company-name']" >>
location_selectors == << "[data-testid='text-location']", "div.companyLocation",
                         ".companyLocation", "div[data-testid='text-location']" >>
salary_selectors == << "[data-testid='attribute_snippet_testid']",
                       ".salary-snippet-container", ".salary-snippet",
                       "div.salary-snippet", ".metadata.salary-snippet-container" >>
job_card_selectors == << "css-ehf62e.eu4oa1w0", "job_seen_beacon", "cardOutline",
                         "slider_item", "resultContent" >>
css_selectors == << "li[data-jk]", "div.job_seen_beacon", "div[data-jk]",
                    ".cardOutline", "td.resultContent" >>

NotListed == << "N","o","t"," ","l","i","s","t","e","d" >>

RECURSIVE TitleLoop(_, _)
\* Lines 324-331: title keeps the last value assigned; the loop breaks at
\* the first strategy whose value is non-empty after strip().
TitleLoop(outs, title) ==
    IF outs = << >> THEN title
    ELSE IF Head(outs).kind = "raise" THEN TitleLoop(Tail(outs), title)
    ELSE LET t == Or(Head(outs).attr, Head(outs).text)
         IN  IF Truthy(t) /\ strip(t) # << >> THEN t
             ELSE TitleLoop(Tail(outs), t)

\* Lines 314-331.
ResolveTitle(outs) == TitleLoop(outs, None)

RECURSIVE TextLoop(_, _)
\* Lines 346-353, 364-371, 398-405: the variable is overwritten by every
\* element text read; the loop breaks at the first non-empty one.
TextLoop(outs, cur) ==
    IF outs = << >> THEN cur
    ELSE IF Head(outs).kind = "raise" THEN TextLoop(Tail(outs), cur)
    ELSE LET t == Head(outs).text
         IN  IF Truthy(t) /\ strip(t) # << >> THEN t
             ELSE TextLoop(Tail(outs), t)

RECURSIVE TitleTriedFrom(_, _)
\* Lines 324-331: the find_element attempts the title loop makes from
\* strategy i on; it stops at the break.
TitleTriedFrom(outs, i) ==
    IF i > Len(outs) THEN Len(outs)
    ELSE IF outs[i].kind = "raise" THEN TitleTriedFrom(outs, i + 1)
    ELSE LET t == Or(outs[i].attr, outs[i].text)
         IN  IF Truthy(t) /\ strip(t) # << >> THEN i
             ELSE TitleTriedFrom(outs, i + 1)

TitleTried(outs) == TitleTriedFrom(outs, 1)

RECURSIVE TextTriedFrom(_, _)
\* Lines 346-353, 364-371, 398-405: the find_element attempts of a text loop.
TextTriedFrom(outs, i) ==
    IF i > Len(outs) THEN Len(outs)
    ELSE IF outs[i].kind = "raise" THEN TextTriedFrom(outs, i + 1)
    ELSE IF Truthy(outs[i].text) /\ strip(outs[i].text) # << >> THEN i
    ELSE TextTriedFrom(outs, i + 1)

TextTried(outs) == TextTriedFrom(outs, 1)

\* What reading data-jk gives: it raises, or the attribute (None if absent).
RaiseAttr == << "<raise>" >>

\* Lines 374-386: the job id from the card, else from its title anchor.
ResolveLink(card, dom) ==
    IF card.jk = RaiseAttr THEN None
    ELSE IF Truthy(card.jk) THEN << "https://", dom, "/viewjob?jk=", card.jk >>
    ELSE IF card.link_jk = RaiseAttr THEN None
    ELSE IF Truthy(card.link_jk)
         THEN << "https://", dom, "/viewjob?jk=", card.link_jk >>
    ELSE None

\* Mutant of TitleMissing: the strip() test is dropped.
TitleMissingNoStrip(title) == ~Truthy(title)

\* The title test of line 333.
TitleMissing(title) == ~Truthy(title) \/ strip(title) = << >>

\* Lines 407-411 raise: a field left at None by its loop (an element whose
\* text is None) has no strip(), and the AttributeError reaches line 417.
AppendRaises(company, job_location, salary) ==
    company = None \/ job_location = None \/ salary = None

\* Mutant of ExtractCard: a field left at None is stored as the empty
\* string instead of raising.
ExtractCardNoRaise(card, location, dom) ==
    LET title == ResolveTitle(card.title)
        text(v) == IF v = None THEN << >> ELSE strip(v)
    IN  IF TitleMissing(title) THEN << >>
        ELSE << [ title    |-> strip(title),
                  company  |-> text(TextLoop(card.company, NotListed)),
                  location |-> text(TextLoop(card.location, location)),
                  salary   |-> text(TextLoop(card.salary, NotListed)),
                  link     |-> ResolveLink(card, dom) ] >>

\* Lines 312-419: the card's try block ends in the handler of line 417.
CardRaises(card, location) ==
    /\ ~TitleMissing(ResolveTitle(card.title))
    /\ AppendRaises(TextLoop(card.company, NotListed),
                    TextLoop(card.location, location),
                    TextLoop(card.salary, NotListed))

\* Lines 312-419 for one card: no Listing (no title, or an exception caught
\* on line 417) or one Listing.
ExtractCard(card, location, dom) ==
    LET title == ResolveTitle(card.title)
        company == TextLoop(card.company, NotListed)
        job_location == TextLoop(card.location, location)
        salary == TextLoop(card.salary, NotListed)
    IN  IF TitleMissing(title) THEN << >>
        ELSE IF AppendRaises(company, job_location, salary) THEN << >>
        ELSE << [ title    |-> strip(title),
                  company  |-> strip(company),
                  location |-> strip(job_location),
                  salary   |-> strip(salary),
                  link     |-> ResolveLink(card, dom) ] >>

\* What one find_elements attempt on the page gives: it raises, or a list.
FindRaises == [raises |-> TRUE, found |-> << >>]
Found(list) == [raises |-> FALSE, found |-> list]

NoneName == "<None>"

RECURSIVE LocatorLoopNoBreak(_, _, _, _)
\* Mutant of LocatorLoop: the break is missing, every strategy is tried and
\* cards keeps the last list returned.
LocatorLoopNoBreak(outs, names, i, cur) ==
    IF i > Len(outs)
    THEN [cards |-> cur, selector_used |-> NoneName, calls |-> Len(outs)]
    ELSE IF outs[i].raises THEN LocatorLoopNoBreak(outs, names, i + 1, cur)
    ELSE LET rest == LocatorLoopNoBreak(outs, names, i + 1, outs[i].found)
         IN  IF outs[i].found # << >> /\ rest.selector_used = NoneName
             THEN [rest EXCEPT !.selector_used = names[i]]
             ELSE rest

RECURSIVE LocatorLoop(_, _, _, _)
\* Lines 259-267 and 279-287: cards keeps the last list returned; the loop
\* breaks at the first non-empty list.  calls counts the find_elements calls.
LocatorLoop(outs, names, i, cur) ==
    IF i > Len(outs)
    THEN [cards |-> cur, selector_used |-> NoneName, calls |-> Len(outs)]
    ELSE IF outs[i].raises THEN LocatorLoop(outs, names, i + 1, cur)
    ELSE IF outs[i].found # << >>
         THEN [cards |-> outs[i].found, selector_used |-> names[i], calls |-> i]
    ELSE LocatorLoop(outs, names, i + 1, outs[i].found)

\* Lines 255-287: the class-name chain, then the CSS chain if it found nothing.
locate_cards(doc) ==
    LET byClass == LocatorLoop(doc.cls, job_card_selectors, 1, << >>)
    IN  IF byClass.cards # << >> THEN byClass
        ELSE LET byCss == LocatorLoop(doc.css, css_selectors, 1, byClass.cards)
             IN  [byCss EXCEPT !.calls = byClass.calls + byCss.calls]

-----------------------------------------------------------------------------
(* The environment: configuration, pages and faults *)

MaxCards == 3       \* most cards a find_elements call returns
MaxCap == 2         \* caps -1..MaxCap are tried besides the default
DefaultCap == 10

London == << "L","o","n","d","o","n" >>
UK == << "U","K" >>
LondonUK == London \o << " " >> \o UK
Paris == << "P","a","r","i","s" >>

UkTable == << [key |-> << "u","k" >>, domain |-> "uk.indeed.com"] >>

SearchUrl == << "/","j","o","b","s" >>
CaptchaUrl == << "/","s","h","o","w","c","a","p","t","c","h","a" >>
CaptchaUrlMixed == << "/","S","h","o","w","C","a","p","t","c","h","a" >>
BlockedUrl == << "/","B","L","O","C","K","E","D","?","x" >>
Urls == { SearchUrl, CaptchaUrl, CaptchaUrlMixed, BlockedUrl }

Dev == << "D","e","v" >>
Ops == << " ","O","p","s","\r","\n" >>
Acme == << "A","c","m","e" >>
Remote == << "R","e","m","o","t","e" >>
Pay == << "$","9" >>
Blank == << " ","\t","\f" >>

AllRaise(n) == [i \in 1..n |-> Raise]
FirstThen(o, n) == [i \in 1..n |-> IF i = 1 THEN o ELSE Raise]
At(k, o, n) == [i \in 1..n |-> IF i = k THEN o ELSE Raise]

\* Every field found by the first strategy of its chain.
FullCard1 ==
    [ title    |-> FirstThen(Elem(Dev, << >>), Len(title_selectors)),
      company  |-> FirstThen(Elem(None, Acme), Len(company_selectors)),
      location |-> FirstThen(Elem(None, Remote), Len(location_selectors)),
      salary   |-> FirstThen(Elem(None, Pay), Len(salary_selectors)),
      jk       |-> << "j","1" >>,
      link_jk  |-> None ]

\* Every field found by a later strategy, after empty and raising ones.
FullCard2 ==
    [ title    |-> << Raise, Elem(None, << >>), Elem(None, Ops), Raise, Raise,
                      Elem(Dev, Dev) >>,
      company  |-> << Elem(None, Blank), Elem(None, Acme), Raise, Raise >>,
      location |-> At(4, Elem(None, Paris), Len(location_selectors)),
      salary   |-> At(5, Elem(None, Pay), Len(salary_selectors)),
      jk       |-> None,
      link_jk  |-> << "j","2" >> ]

\* No title strategy finds an element.
NoTitleCard ==
    [ FullCard1 EXCEPT !.title = AllRaise(Len(title_selectors)) ]

\* Title elements exist but carry only whitespace.
BlankTitleCard ==
    [ FullCard1 EXCEPT !.title = << Elem(Blank, Dev), Raise, Elem(None, << >>),
                                    Raise, Raise, Elem(None, Blank) >> ]

\* A title, but optional fields missing or present with empty text.
SparseCard ==
    [ title    |-> At(2, Elem(None, Dev), Len(title_selectors)),
      company  |-> FirstThen(Elem(None, << >>), Len(company_selectors)),
      location |-> AllRaise(Len(location_selectors)),
      salary   |-> At(2, Elem(None, Blank), Len(salary_selectors)),
      jk       |-> RaiseAttr,
      link_jk  |-> None ]

\* A title, and a company element whose text the driver gives as None.
NullTextCard ==
    [ FullCard2 EXCEPT !.company = FirstThen(Elem(None, None), Len(company_selectors)) ]

Cards == { FullCard1, FullCard2, NoTitleCard, BlankTitleCard, SparseCard }

RECURSIVE ListsUpTo(_, _)
\* The sequences of length 1..n over S.
ListsUpTo(S, n) ==
    IF n = 0 THEN { }
    ELSE LET shorter == ListsUpTo(S, n - 1)
         IN  { << c >> : c \in S } \cup shorter
                \cup { Append(l, c) : l \in shorter, c \in S }

NStrategies == Len(job_card_selectors) + Len(css_selectors)

\* A page on which strategy k (1..5 class-name, 6..10 CSS) returns list and
\* every other strategy gives other.
PageWith(k, list, other) ==
    [ cls |-> [i \in 1..Len(job_card_selectors) |->
                  IF i = k THEN Found(list) ELSE other],
      css |-> [i \in 1..Len(css_selectors) |->
                  IF i + Len(job_card_selectors) = k THEN Found(list) ELSE other] ]

\* A page matched by two strategies with different cards.
PageWithTwo(k, list, k2, list2, other) ==
    [ cls |-> [i \in 1..Len(job_card_selectors) |->
                  IF i = k THEN Found(list)
                  ELSE IF i = k2 THEN Found(list2) ELSE other],
      css |-> [i \in 1..Len(css_selectors) |->
                  IF i + Len(job_card_selectors) = k THEN Found(list)
                  ELSE IF i + Len(job_card_selectors) = k2 THEN Found(list2)
                  ELSE other] ]

Misses == { FindRaises, Found(<< >>) }

\* What a title strategy may give: no element, an element without title
\* attribute and with empty text, one whose attribute is blank, one whose
\* text needs trimming.
TitleOutcomes == { Raise, Elem(None, << >>), Elem(Blank, Dev), Elem(None, Ops) }

\* What a company, location or salary strategy may give.
TextOutcomes ==
    { Raise, Elem(None, << >>), Elem(None, Blank), Elem(None, Acme), Elem(None, None) }

\* Cards that differ from a curated card in one chain, which takes every
\* combination of outcomes over its strategies.
ChainCards ==
    { [FullCard1 EXCEPT !.title = t] :
         t \in [1..Len(title_selectors) -> TitleOutcomes] }
      \cup { [SparseCard EXCEPT !.company = c] :
                c \in [1..Len(company_selectors) -> TextOutcomes] }
      \cup { [SparseCard EXCEPT !.location = l] :
                l \in [1..Len(location_selectors) -> TextOutcomes] }
      \cup { [SparseCard EXCEPT !.salary = x] :
                x \in [1..Len(salary_selectors) -> TextOutcomes] }

\* The pages of the full environment: any list of curated cards under the
\* first strategy, a list under any one later strategy, two competing
\* matches, pages no strategy matches, every single chain card, and the
\* lists in which a card whose extraction raises stands among others.
AllPages ==
    { PageWith(1, l, FindRaises) : l \in ListsUpTo(Cards, MaxCards) }
      \cup { PageWith(k, << SparseCard, FullCard1 >>, o) :
                k \in 2..NStrategies, o \in Misses }
      \cup { PageWithTwo(k, << FullCard2 >>, k2, << NoTitleCard >>, Found(<< >>)) :
                k \in { 2, 7 }, k2 \in { 4, 9 } }
      \cup { PageWith(0, << >>, o) : o \in Misses }
      \cup { PageWith(1, << c >>, FindRaises) : c \in ChainCards }
      \cup { PageWith(1, l, FindRaises) :
                l \in ListsUpTo({ FullCard1, NullTextCard, NoTitleCard }, MaxCards) }

Faults == { "chrome", "stealth", "get", "current_url", "screenshot", "quit",
            "title", "slack" }

\* The pages of the reduced environment.
FewPages ==
    { PageWith(1, << FullCard1 >>, FindRaises),
      PageWith(7, << NoTitleCard, FullCard2 >>, Found(<< >>)),
      PageWith(0, << >>, Found(<< >>)) }

\* site.pages[j] names the pages location j may be served, site.urls[j] the
\* URLs its navigation may end on, site.faults the calls that may raise.
PagesAt(j) ==
    IF site.pages[j] = "all" THEN AllPages
    ELSE IF site.pages[j] = "few" THEN FewPages
    ELSE { PageWith(k, site.order, o) : k \in 1..NStrategies, o \in Misses }

UrlsAt(j) ==
    IF site.urls[j] = "any" THEN Urls
    ELSE IF site.urls[j] = "clear" THEN { SearchUrl }
    ELSE Urls \ { SearchUrl }

\* The outcomes of a call: TRUE it returns, FALSE it raises.
MayFail(f) == IF f \in site.faults THEN { TRUE, FALSE } ELSE { TRUE }

-----------------------------------------------------------------------------
(* The run: main() and scrape_location() *)

Location == LOCATIONS[idx]

\* Mutant of is_blocked: the URL is not lower-cased.
is_blocked_case_sensitive(u) ==
    \/ Contains(<< "s","h","o","w","c","a","p","t","c","h","a" >>, u)
    \/ Contains(<< "b","l","o","c","k","e","d" >>, u)

\* The block test of line 235.
is_blocked(u) ==
    \/ Contains(<< "s","h","o","w","c","a","p","t","c","h","a" >>, lower(u))
    \/ Contains(<< "b","l","o","c","k","e","d" >>, lower(u))

\* dict[key] = value on an insertion-ordered dict kept as a sequence of
\* entries: an existing key keeps its position and gets the new value.
DictSet(d, k, v) ==
    IF \E i \in 1..Len(d) : d[i].location = k
    THEN [i \in 1..Len(d) |-> IF d[i].location = k
                               THEN [location |-> k, jobs |-> v] ELSE d[i]]
    ELSE Append(d, [location |-> k, jobs |-> v])

RECURSIVE SumLen(_)
\* sum(len(jobs) for jobs in d.values())
SumLen(d) == IF d = << >> THEN 0 ELSE Len(Head(d).jobs) + SumLen(Tail(d))

Msg(text, arg) == [msg |-> text, arg |-> arg]

\* No document: nothing has been located yet.
NoPage == [cls |-> << >>, css |-> << >>]

\* The state of the locals before scrape_location assigns them.
Unset ==
    /\ results = << >> /\ debug_messages = << >> /\ domain = NoneName
    /\ current_url = None /\ cards = << >> /\ selector_used = NoneName
    /\ card_i = 0 /\ url = None /\ visited = << >> /\ emitted = << >>
    /\ page = NoPage

ConfigUnchanged == UNCHANGED << LOCATIONS, DOMAINS, MAX_JOBS_PER_LOCATION, site >>

\* driver.quit(): counted; a call that raises may or may not have ended
\* the browser.
Quit(ok, after) ==
    /\ quitCalls' = quitCalls + 1
    /\ after \in (IF ok THEN { "closed" } ELSE { sessions[idx], "closed" })
    /\ sessions' = [sessions EXCEPT ![idx] = after]

\* send_debug_screenshot(screenshot, location, "\n".join(debug_messages)):
\* the text handed over is kept as the list of its lines.
SendDebug(lines) ==
    debugSent' = Append(debugSent, lines)

InitRun ==
    /\ pc = "for" /\ idx = 0 /\ all_results = << >>
    /\ sessions = [j \in 1..Len(LOCATIONS) |-> "none"]
    /\ Unset
    /\ raised = "none"
    /\ quitCalls = 0 /\ getCalls = 0 /\ findCalls = 0 /\ debugSent = << >>
    /\ reports = << >>

RECURSIVE split(_, _)
\* str.split(sep) for a separator of one character.
split(s, sep) ==
    IF \A i \in 1..Len(s) : s[i] # sep THEN << s >>
    ELSE LET i == CHOOSE k \in 1..Len(s) :
                      s[k] = sep /\ \A j \in 1..(k - 1) : s[j] # sep
         IN  << SubSeq(s, 1, i - 1) >> \o split(SubSeq(s, i + 1, Len(s)), sep)

\* Line 26: [loc.strip() for loc in LOCATIONS_STRING.split(",")]
ParseLocations(LOCATIONS_STRING) ==
    LET parts == split(LOCATIONS_STRING, ",")
    IN  [i \in 1..Len(parts) |-> strip(parts[i])]

\* Values of JOB_LOCATIONS: "London UK, Paris", "London, UK", "Paris,Paris"
\* and "Paris" followed by a line end. Line 22 lets no empty value pass.
LocationStrings ==
    { LondonUK \o << ",", " " >> \o Paris,
      London \o << ",", " " >> \o UK,
      Paris \o << "," >> \o Paris,
      Paris \o << "\r", "\n" >> }

\* The lists line 26 makes of them: no location holds a comma, nor
\* whitespace at either end.
LocationLists == { ParseLocations(s) : s \in LocationStrings }

Caps == (-1 .. MaxCap) \cup { DefaultCap }

Init ==
    /\ LOCATIONS \in LocationLists
    /\ DOMAINS = UkTable
    /\ MAX_JOBS_PER_LOCATION \in Caps
    /\ site = [ pages  |-> [j \in 1..Len(LOCATIONS) |->
                              IF Len(LOCATIONS) = 1 THEN "all" ELSE "few"],
                urls   |-> [j \in 1..Len(LOCATIONS) |-> "any"],
                faults |-> Faults,
                order  |-> << >> ]
    /\ InitRun

\* Lines 455-457: the next location enters scrape_location.
ForLoop ==
    /\ pc = "for" /\ idx < Len(LOCATIONS)
    /\ idx' = idx + 1
    /\ pc' = "chrome"
    /\ results' = << >> /\ debug_messages' = << >> /\ domain' = NoneName
    /\ current_url' = None /\ cards' = << >> /\ selector_used' = NoneName
    /\ card_i' = 0 /\ url' = None /\ visited' = << >> /\ emitted' = << >>
    /\ page' = NoPage
    /\ quitCalls' = 0 /\ getCalls' = 0 /\ findCalls' = 0 /\ debugSent' = << >>
    /\ UNCHANGED << all_results, sessions, raised, reports >>
    /\ ConfigUnchanged

\* Lines 198-201: webdriver.Chrome(...), outside every try.
Chrome ==
    /\ pc = "chrome"
    /\ \E ok \in MayFail("chrome") :
         IF ok
         THEN /\ sessions' = [sessions EXCEPT ![idx] = "live"]
              /\ pc' = "stealth" /\ UNCHANGED raised
         ELSE /\ raised' = "chrome" /\ pc' = "aborted" /\ UNCHANGED sessions
    /\ UNCHANGED << page, idx, all_results, results, debug_messages, domain,
                    current_url, cards, selector_used, card_i, url, quitCalls,
                    getCalls, findCalls, visited, emitted, debugSent, reports >>
    /\ ConfigUnchanged

\* Lines 204-212: the stealth overrides, outside every try.
Stealth ==
    /\ pc = "stealth"
    /\ \E ok \in MayFail("stealth") :
         IF ok THEN pc' = "navigate" /\ UNCHANGED raised
         ELSE raised' = "stealth" /\ pc' = "aborted"
    /\ UNCHANGED << page, idx, all_results, sessions, results, debug_messages, domain,
                    current_url, cards, selector_used, card_i, url, quitCalls,
                    getCalls, findCalls, visited, emitted, debugSent, reports >>
    /\ ConfigUnchanged

\* Lines 215-225: resolve the domain, build the URL, driver.get(url).
Navigate ==
    /\ pc = "navigate"
    /\ domain' = get_domain(Location)
    /\ url' = build_search_url(get_domain(Location), JOB_TITLE, Location)
    /\ getCalls' = getCalls + 1
    /\ \E ok \in MayFail("get") :
         IF ok THEN pc' = "settle" /\ UNCHANGED raised
         ELSE raised' = "get" /\ pc' = "unexpected"
    /\ UNCHANGED << page, idx, all_results, sessions, results, debug_messages,
                    current_url, cards, selector_used, card_i, quitCalls,
                    findCalls, visited, emitted, debugSent, reports >>
    /\ ConfigUnchanged

\* Line 228: the fixed settle delay.
Settle ==
    /\ pc = "settle"
    /\ pc' = "read_url"
    /\ UNCHANGED << page, idx, all_results, sessions, results, debug_messages, domain,
                    current_url, cards, selector_used, card_i, url, raised,
                    quitCalls, getCalls, findCalls, visited, emitted, debugSent,
                    reports >>
    /\ ConfigUnchanged

\* Lines 231-236: read the current URL and test it for a block signature.
ReadUrl ==
    /\ pc = "read_url"
    /\ \E ok \in MayFail("current_url") :
         IF ok
         THEN \E u \in UrlsAt(idx) :
                /\ current_url' = u
                /\ IF is_blocked(u)
                   THEN /\ debug_messages' = Append(debug_messages,
                              Msg("Bot detection triggered - captcha or block page", << >>))
                        /\ pc' = "blocked"
                   ELSE /\ pc' = "locate" /\ UNCHANGED debug_messages
                /\ UNCHANGED raised
         ELSE /\ raised' = "current_url" /\ pc' = "unexpected"
              /\ UNCHANGED << current_url, debug_messages >>
    /\ UNCHANGED << page, idx, all_results, sessions, results, domain, cards,
                    selector_used, card_i, url, quitCalls, getCalls, findCalls,
                    visited, emitted, debugSent, reports >>
    /\ ConfigUnchanged

\* Lines 237-238: screenshot, then the debug sink.
BlockedReport ==
    /\ pc = "blocked"
    /\ \E ok \in MayFail("screenshot") :
         IF ok
         THEN /\ SendDebug(debug_messages)
              /\ pc' = "blocked_quit" /\ UNCHANGED raised
         ELSE /\ raised' = "screenshot" /\ pc' = "unexpected"
              /\ UNCHANGED debugSent
    /\ UNCHANGED << page, idx, all_results, sessions, results, debug_messages, domain,
                    current_url, cards, selector_used, card_i, url, quitCalls,
                    getCalls, findCalls, visited, emitted, reports >>
    /\ ConfigUnchanged

\* Lines 239-240: driver.quit(), then return results through the finally.
BlockedQuit ==
    /\ pc = "blocked_quit"
    /\ \E ok \in MayFail("quit"), after \in { "live", "closed" } :
         /\ Quit(ok, after)
         /\ IF ok THEN pc' = "finally" /\ UNCHANGED raised
            ELSE raised' = "quit" /\ pc' = "unexpected"
    /\ UNCHANGED << page, idx, all_results, results, debug_messages, domain,
                    current_url, cards, selector_used, card_i, url, getCalls,
                    findCalls, visited, emitted, debugSent, reports >>
    /\ ConfigUnchanged

\* Lines 244-289: the card locator, both chains.
Locate ==
    /\ pc = "locate"
    /\ \E served \in PagesAt(idx) :
         LET r == locate_cards(served)
         IN  /\ page' = served
             /\ cards' = r.cards
             /\ selector_used' = r.selector_used
             /\ findCalls' = findCalls + r.calls
             /\ pc' = IF r.cards = << >> THEN "no_cards" ELSE "extract"
    /\ UNCHANGED << idx, all_results, sessions, results, debug_messages, domain,
                    current_url, card_i, url, raised, quitCalls, getCalls,
                    visited, emitted, debugSent, reports >>
    /\ ConfigUnchanged

PageTitle == << "J","o","b","s" >>

\* Lines 290-293: the no-cards trace; driver.title and driver.current_url
\* are read inside the inner try.
NoCards ==
    /\ pc = "no_cards"
    /\ \E okTitle \in MayFail("title"), okUrl \in MayFail("current_url"),
          u \in UrlsAt(idx) :
         LET first == Append(debug_messages, Msg("No job cards found on page", << >>))
             second == Append(first, Msg("Page title: ", PageTitle))
             third == Append(second, Msg("URL: ", u))
         IN  IF ~okTitle
             THEN /\ debug_messages' = first
                  /\ raised' = "title" /\ pc' = "parse_failed"
             ELSE IF ~okUrl
             THEN /\ debug_messages' = second
                  /\ raised' = "current_url" /\ pc' = "parse_failed"
             ELSE /\ debug_messages' = third
                  /\ pc' = "probe" /\ UNCHANGED raised
    /\ UNCHANGED << page, idx, all_results, sessions, results, domain, current_url,
                    cards, selector_used, card_i, url, quitCalls, getCalls,
                    findCalls, visited, emitted, debugSent, reports >>
    /\ ConfigUnchanged

ProbeOutcomes == { FindRaises, Found(<< >>), Found(<< "header" >>) }

\* Lines 295-305: probe for the site's own "no results" message, take the
\* screenshot, hand the trace to the debug sink.
Probe ==
    /\ pc = "probe"
    /\ \E o \in ProbeOutcomes, ok \in MayFail("screenshot") :
         LET lines == IF ~o.raises /\ o.found # << >>
                      THEN Append(debug_messages,
                              Msg("Indeed shows 'No jobs found' message", << >>))
                      ELSE debug_messages
         IN  /\ debug_messages' = lines
             /\ IF ok
                THEN /\ SendDebug(lines)
                     /\ pc' = "no_cards_quit" /\ UNCHANGED raised
                ELSE /\ raised' = "screenshot" /\ pc' = "parse_failed"
                     /\ UNCHANGED debugSent
    /\ UNCHANGED << page, idx, all_results, sessions, results, domain, current_url,
                    cards, selector_used, card_i, url, quitCalls, getCalls,
                    findCalls, visited, emitted, reports >>
    /\ ConfigUnchanged

\* Lines 306-307: driver.quit(), then return results through the finally.
NoCardsQuit ==
    /\ pc = "no_cards_quit"
    /\ \E ok \in MayFail("quit"), after \in { "live", "closed" } :
         /\ Quit(ok, after)
         /\ IF ok THEN pc' = "finally" /\ UNCHANGED raised
            ELSE raised' = "quit" /\ pc' = "parse_failed"
    /\ UNCHANGED << page, idx, all_results, results, debug_messages, domain,
                    current_url, cards, selector_used, card_i, url, getCalls,
                    findCalls, visited, emitted, debugSent, reports >>
    /\ ConfigUnchanged

\* cards[:MAX_JOBS_PER_LOCATION] of line 311.
CappedCards == SliceTo(cards, MAX_JOBS_PER_LOCATION)

\* Mutant of Extract: a card's exception is not caught per card; it ends
\* the loop in the handler of line 423.
ExtractNotIsolated ==
    /\ pc = "extract" /\ card_i < Len(CappedCards)
    /\ LET k == card_i + 1
           listing == ExtractCard(CappedCards[k], Location, domain)
       IN  /\ card_i' = k
           /\ visited' = Append(visited, k)
           /\ results' = results \o listing
           /\ emitted' = IF listing = << >> THEN emitted ELSE Append(emitted, k)
           /\ IF CardRaises(CappedCards[k], Location)
              THEN raised' = "card" /\ pc' = "parse_failed"
              ELSE UNCHANGED << raised, pc >>
    /\ UNCHANGED << page, idx, all_results, sessions, debug_messages, domain,
                    current_url, cards, selector_used, url, quitCalls,
                    getCalls, findCalls, debugSent, reports >>
    /\ ConfigUnchanged

\* Lines 311-419: one iteration of the extraction loop.
Extract ==
    /\ pc = "extract" /\ card_i < Len(CappedCards)
    /\ LET k == card_i + 1
           listing == ExtractCard(CappedCards[k], Location, domain)
       IN  /\ card_i' = k
           /\ visited' = Append(visited, k)
           /\ results' = results \o listing
           /\ emitted' = IF listing = << >> THEN emitted ELSE Append(emitted, k)
    /\ UNCHANGED << page, pc, idx, all_results, sessions, debug_messages, domain,
                    current_url, cards, selector_used, url, raised, quitCalls,
                    getCalls, findCalls, debugSent, reports >>
    /\ ConfigUnchanged

\* Mutant of ExtractDone: a loop that ends without any Listing hands its
\* trace to the debug sink.
ExtractDoneReportsEmpty ==
    /\ pc = "extract" /\ card_i = Len(CappedCards)
    /\ pc' = "finally"
    /\ debugSent' = IF results = << >> THEN Append(debugSent, debug_messages)
                    ELSE debugSent
    /\ UNCHANGED << page, idx, all_results, sessions, results, debug_messages, domain,
                    current_url, cards, selector_used, card_i, url, raised,
                    quitCalls, getCalls, findCalls, visited, emitted, reports >>
    /\ ConfigUnchanged

\* Line 421: the loop is exhausted; control falls to the finally.
ExtractDone ==
    /\ pc = "extract" /\ card_i = Len(CappedCards)
    /\ pc' = "finally"
    /\ UNCHANGED << page, idx, all_results, sessions, results, debug_messages, domain,
                    current_url, cards, selector_used, card_i, url, raised,
                    quitCalls, getCalls, findCalls, visited, emitted, debugSent,
                    reports >>
    /\ ConfigUnchanged

\* Lines 423-428: the inner handler; its screenshot is not guarded.
ParseFailed ==
    /\ pc = "parse_failed"
    /\ \E ok \in MayFail("screenshot") :
         LET lines == Append(debug_messages,
                             Msg("Failed to parse results: ", << raised >>))
         IN  /\ debug_messages' = lines
             /\ IF ok
                THEN /\ SendDebug(lines)
                     /\ raised' = "none" /\ pc' = "finally"
                ELSE /\ raised' = "screenshot" /\ pc' = "unexpected"
                     /\ UNCHANGED debugSent
    /\ UNCHANGED << page, idx, all_results, sessions, results, domain, current_url,
                    cards, selector_used, card_i, url, quitCalls, getCalls,
                    findCalls, visited, emitted, reports >>
    /\ ConfigUnchanged

\* Lines 430-438: the outer handler; its screenshot and send are guarded.
Unexpected ==
    /\ pc = "unexpected"
    /\ \E ok \in MayFail("screenshot") :
         LET lines == Append(debug_messages,
                             Msg("Unexpected error: ", << raised >>))
         IN  /\ debug_messages' = lines
             /\ IF ok THEN SendDebug(lines) ELSE UNCHANGED debugSent
    /\ raised' = "none"
    /\ pc' = "finally"
    /\ UNCHANGED << page, idx, all_results, sessions, results, domain, current_url,
                    cards, selector_used, card_i, url, quitCalls, getCalls,
                    findCalls, visited, emitted, reports >>
    /\ ConfigUnchanged

\* Mutant of Finally: the finally clause does not close the session.
FinallyNoQuit ==
    /\ pc = "finally"
    /\ pc' = "return"
    /\ UNCHANGED << page, idx, all_results, sessions, results, debug_messages, domain,
                    current_url, cards, selector_used, card_i, url, raised,
                    quitCalls, getCalls, findCalls, visited, emitted, debugSent,
                    reports >>
    /\ ConfigUnchanged

\* Lines 440-441: the finally clause; an exception of driver.quit() leaves
\* scrape_location and main.
Finally ==
    /\ pc = "finally"
    /\ \E ok \in MayFail("quit"), after \in { "live", "closed" } :
         /\ Quit(ok, after)
         /\ IF ok THEN pc' = "return" /\ UNCHANGED raised
            ELSE raised' = "quit" /\ pc' = "aborted"
    /\ UNCHANGED << page, idx, all_results, results, debug_messages, domain,
                    current_url, cards, selector_used, card_i, url, getCalls,
                    findCalls, visited, emitted, debugSent, reports >>
    /\ ConfigUnchanged

\* Lines 443 and 457-461: return results; main stores them.
Return ==
    /\ pc = "return"
    /\ all_results' = DictSet(all_results, Location, results)
    /\ pc' = IF idx < Len(LOCATIONS) THEN "delay" ELSE "for"
    /\ UNCHANGED << page, idx, sessions, results, debug_messages, domain,
                    current_url, cards, selector_used, card_i, url, raised,
                    quitCalls, getCalls, findCalls, visited, emitted, debugSent,
                    reports >>
    /\ ConfigUnchanged

\* Lines 461-465: the delay between locations.
Delay ==
    /\ pc = "delay"
    /\ pc' = "for"
    /\ UNCHANGED << page, idx, all_results, sessions, results, debug_messages, domain,
                    current_url, cards, selector_used, card_i, url, raised,
                    quitCalls, getCalls, findCalls, visited, emitted, debugSent,
                    reports >>
    /\ ConfigUnchanged

NoJobsInfo == "Scraped all locations but found no jobs. Check debug screenshots above."

\* Lines 62-77 and 141-142: which message send_to_slack posts.
send_to_slack(all_jobs_by_location, debug_info) ==
    [ all_jobs_by_location |-> all_jobs_by_location,
      debug_info |-> debug_info,
      total_jobs |-> SumLen(all_jobs_by_location),
      message |-> IF SumLen(all_jobs_by_location) = 0
                  THEN "No matching results found." ELSE "blocks" ]

\* Lines 467-486: the loop is over; the report is posted.
Report ==
    /\ pc = "for" /\ idx = Len(LOCATIONS)
    /\ LET total == SumLen(all_results)
           debug_info == IF total = 0 THEN NoJobsInfo ELSE NoneName
       IN  reports' = Append(reports, send_to_slack(all_results, debug_info))
    /\ \E ok \in MayFail("slack") :
         IF ok THEN pc' = "done" /\ UNCHANGED raised
         ELSE raised' = "slack" /\ pc' = "aborted"
    /\ UNCHANGED << page, idx, all_results, sessions, results, debug_messages, domain,
                    current_url, cards, selector_used, card_i, url, quitCalls,
                    getCalls, findCalls, visited, emitted, debugSent >>
    /\ ConfigUnchanged

Next ==
    \/ ForLoop \/ Chrome \/ Stealth \/ Navigate \/ Settle \/ ReadUrl
    \/ BlockedReport \/ BlockedQuit \/ Locate \/ NoCards \/ Probe
    \/ NoCardsQuit \/ Extract \/ ExtractDone \/ ParseFailed \/ Unexpected
    \/ Finally \/ Return \/ Delay \/ Report

Spec == Init /\ [][Next]_vars

-----------------------------------------------------------------------------
(* get_domain on bounded tables and locations *)

MaxKeys == 2        \* most entries of a domain table
MaxLocLen == 3      \* longest location string

TableKeys == { << >>, << "u" >>, << "k" >>, << "u","k" >> }
TableDomains == { "uk.indeed.com", "fr.indeed.com" }
LocChars == { "U", "u", "k" }

RECURSIVE Tables(_)
\* The tables of at most n entries: keys are lower-case and distinct, as
\* lines 29-33 leave them.
Tables(n) ==
    IF n = 0 THEN { << >> }
    ELSE LET shorter == Tables(n - 1)
         IN  shorter \cup
             { Append(t, [key |-> k, domain |-> d]) :
                 t \in { x \in shorter : Len(x) = n - 1 },
                 k \in TableKeys, d \in TableDomains }

DistinctKeys(t) ==
    \A i, j \in 1..Len(t) : t[i].key = t[j].key => i = j

RECURSIVE Strings(_)
Strings(n) ==
    IF n = 0 THEN { << >> }
    ELSE LET shorter == Strings(n - 1)
         IN  shorter \cup { Append(w, c) : w \in shorter, c \in LocChars }

InitDomain ==
    /\ LOCATIONS \in { << l >> : l \in Strings(MaxLocLen) }
    /\ DOMAINS \in { t \in Tables(MaxKeys) : DistinctKeys(t) }
    /\ MAX_JOBS_PER_LOCATION = DefaultCap
    /\ site = [ pages  |-> << "few" >>, urls |-> << "any" >>,
                faults |-> { }, order |-> << >> ]
    /\ InitRun

\* The steps of a run over one location in which no call raises: the
\* handlers of lines 423 and 430 are never entered, and the delay of line
\* 461 is never taken.
NextDomain ==
    \/ ForLoop \/ Chrome \/ Stealth \/ Navigate \/ Settle \/ ReadUrl
    \/ BlockedReport \/ BlockedQuit \/ Locate \/ NoCards \/ Probe
    \/ NoCardsQuit \/ Extract \/ ExtractDone \/ Finally \/ Return \/ Report

SpecDomain == InitDomain /\ [][NextDomain]_vars

-----------------------------------------------------------------------------
(* The end-to-end scenario of the specification *)

ScenarioOrders ==
    { o \in [1..3 -> { FullCard1, FullCard2, NoTitleCard }] :
        \A c \in { FullCard1, FullCard2, NoTitleCard } : \E i \in 1..3 : o[i] = c }

\* Values of JOB_LOCATIONS for the scenario's two locations: "London, UK"
\* and "Paris" as a comma-separated list, "London, UK,Paris", which line 26
\* makes three locations of, and "London UK, Paris".
ScenarioStrings ==
    { London \o << ",", " " >> \o UK \o << "," >> \o Paris,
      LondonUK \o << ",", " " >> \o Paris }

\* The first location is served the scenario's three cards, the last one
\* ends on a block-signature URL.
InitScenario ==
    /\ LOCATIONS \in { ParseLocations(s) : s \in ScenarioStrings }
    /\ DOMAINS = UkTable
    /\ MAX_JOBS_PER_LOCATION = 2
    /\ \E o \in ScenarioOrders :
         site = [ pages  |-> [j \in 1..Len(LOCATIONS) |->
                                IF j = 1 THEN "scenario" ELSE "few"],
                  urls   |-> [j \in 1..Len(LOCATIONS) |->
                                IF j = 1 THEN "clear"
                                ELSE IF j = Len(LOCATIONS) THEN "blocked"
                                ELSE "any"],
                  faults |-> { }, order |-> o ]
    /\ InitRun

\* The steps of a run in which no call raises: the handlers of lines 423
\* and 430 are never entered.
NextScenario ==
    \/ ForLoop \/ Chrome \/ Stealth \/ Navigate \/ Settle \/ ReadUrl
    \/ BlockedReport \/ BlockedQuit \/ Locate \/ NoCards \/ Probe
    \/ NoCardsQuit \/ Extract \/ ExtractDone \/ Finally \/ Return
    \/ Delay \/ Report

SpecScenario == InitScenario /\ [][NextScenario]_vars

-----------------------------------------------------------------------------
(* Properties *)

\* The run is over: main returned, or an exception left it.
RunEnded == pc \in { "done", "aborted" }

\* C1: on every exit path of a location pipeline driver.quit is invoked
\* exactly once: never twice at any point, and once when the pipeline has
\* returned.
C1_QuitExactlyOnce ==
    /\ quitCalls <= 1
    /\ pc = "return" => quitCalls = 1

\* C2: a session that cannot be built (driver instantiation or stealth
\* overrides raising) never ends the run: the exception does not leave main.
C2_BuildFailureIsLocal ==
    raised \in { "chrome", "stealth" } => pc # "aborted"

\* C3: when the run has ended, send_to_slack has been called exactly once,
\* after the last configured location, with the accumulated results, and a
\* run without any Listing is reported through the zero-results message.
C3_ReportedExactlyOnce ==
    /\ Len(reports) <= 1
    /\ RunEnded =>
         /\ Len(reports) = 1
         /\ idx = Len(LOCATIONS)
         /\ reports[1].all_jobs_by_location = all_results
         /\ (reports[1].total_jobs = 0
               => reports[1].message = "No matching results found.")

\* The block signatures of the claim: a case-insensitive substring test.
BlockSignatures ==
    { << "s","h","o","w","c","a","p","t","c","h","a" >>,
      << "b","l","o","c","k","e","d" >> }
HasBlockSignature(u) ==
    \E sig \in BlockSignatures :
       \E i \in 1..(Len(u) - Len(sig) + 1) :
          lower(SubSeq(u, i, i + Len(sig) - 1)) = sig

\* The entry all_results holds for the current location.
StoredJobs ==
    LET i == CHOOSE i \in 1..Len(all_results) : all_results[i].location = Location
    IN  all_results[i].jobs

\* C4: once the URL read after navigation carries a block signature, no
\* find_elements call is made for the location, driver.get is not called
\* again, and the result returned and stored for the location is empty.
C4_BlockedShortCircuit ==
    (current_url # None /\ HasBlockSignature(current_url)) =>
        /\ findCalls = 0
        /\ getCalls = 1
        /\ cards = << >> /\ visited = << >>
        /\ results = << >>
        /\ pc \notin { "locate", "no_cards", "probe", "no_cards_quit", "extract" }
        /\ pc \in { "delay", "for", "done" } => StoredJobs = << >>

C4_Witness ==
    /\ pc = "delay"
    /\ current_url # None /\ HasBlockSignature(current_url)
    /\ StoredJobs = << >>

\* A card none of whose title strategies yields a non-blank value.
TitleUnresolvable(card) ==
    \A i \in 1..Len(card.title) :
       \/ card.title[i].kind = "raise"
       \/ Or(card.title[i].attr, card.title[i].text) = None
       \/ strip(Or(card.title[i].attr, card.title[i].text)) = << >>

\* C5: every Listing, in the current results and in all_results, has a
\* title that is non-empty after trimming; a visited card without a
\* resolvable title is not among the emitting cards, and the loop still
\* visits every card of the capped slice.
C5_TitleRequired ==
    /\ \A i \in 1..Len(results) : strip(results[i].title) # << >>
    /\ \A e \in 1..Len(all_results) :
         \A i \in 1..Len(all_results[e].jobs) :
            strip(all_results[e].jobs[i].title) # << >>
    /\ \A k \in 1..Len(visited) :
         TitleUnresolvable(cards[visited[k]]) =>
            \A m \in 1..Len(emitted) : emitted[m] # visited[k]
    /\ Len(emitted) = Len(results)
    /\ (pc = "return" /\ cards # << >>) =>
          \A k \in 1..Len(cards) :
             (k <= MAX_JOBS_PER_LOCATION) => \E m \in 1..Len(visited) : visited[m] = k

C5_Witness ==
    /\ pc = "return"
    /\ Len(visited) >= 2
    /\ TitleUnresolvable(cards[1])
    /\ emitted = << 2 >>
    /\ Len(results) = 1

\* A field chain none of whose strategies finds an element with non-blank
\* text: they find no element, or one whose text is empty or whitespace.
NoTextResolves(outs) ==
    \A i \in 1..Len(outs) :
       outs[i].kind = "raise" \/ outs[i].text = None \/ strip(outs[i].text) = << >>

\* C6: the Listing of an emitting card carries "Not listed" for a company or
\* salary no strategy resolves to non-blank text, and the originating
\* location string for such a job location.
C6_SentinelWhenUnresolved ==
    \A m \in 1..Len(emitted) :
       LET card == cards[emitted[m]]
           listing == results[m]
       IN  /\ NoTextResolves(card.company) => listing.company = NotListed
           /\ NoTextResolves(card.salary) => listing.salary = NotListed
           /\ NoTextResolves(card.location) => listing.location = Location

\* The extraction loop of the current location has run to its end.
LoopFinished == pc = "return" /\ cards # << >>

FirstN(n) == [i \in 1..n |-> i]

Max(a, b) == IF a >= b THEN a ELSE b

\* C7 as stated: for every cap K the loop visits exactly the first
\* min(K, N) of the N located cards (none when that is negative), never a
\* card beyond the cap, and produces at most K Listings (none for K < 0).
C7_CapForEveryK ==
    LoopFinished =>
        /\ visited = FirstN(Min(MAX_JOBS_PER_LOCATION, Len(cards)))
        /\ \A m \in 1..Len(visited) : visited[m] <= MAX_JOBS_PER_LOCATION
        /\ Len(results) <= Max(MAX_JOBS_PER_LOCATION, 0)

\* C7, amended: for every cap K >= 0 the loop visits exactly the first
\* min(K, N) located cards, in document order, never a card beyond the cap,
\* and produces at most K Listings; for K < 0 it visits the first
\* max(N + K, 0) cards.
C7_CapEnforced ==
    /\ \A m \in 1..Len(visited) : visited[m] = m
    /\ Len(visited) <= Len(cards)
    /\ MAX_JOBS_PER_LOCATION >= 0 =>
         /\ Len(visited) <= MAX_JOBS_PER_LOCATION
         /\ Len(results) <= MAX_JOBS_PER_LOCATION
         /\ LoopFinished => visited = FirstN(Min(MAX_JOBS_PER_LOCATION, Len(cards)))
    /\ (MAX_JOBS_PER_LOCATION < 0 /\ LoopFinished) =>
         visited = FirstN(IF Len(cards) + MAX_JOBS_PER_LOCATION > 0
                          THEN Len(cards) + MAX_JOBS_PER_LOCATION ELSE 0)

C7_Witness ==
    /\ LoopFinished
    /\ MAX_JOBS_PER_LOCATION = 2 /\ Len(cards) = 3
    /\ visited = << 1, 2 >>
    /\ Len(results) = 2

\* A key is contained in a location, ignoring case.
ContainsIgnoreCase(key, location) == Contains(lower(key), lower(location))

\* The domain has been resolved for the current location.
Resolved == idx >= 1 /\ domain # NoneName

\* C8 as stated: get_domain returns the domain of every pair whose key the
\* location contains, and the default domain when it contains no key.
C8_EveryContainedKey ==
    Resolved =>
        /\ \A i \in 1..Len(DOMAINS) :
              ContainsIgnoreCase(DOMAINS[i].key, Location)
                 => domain = DOMAINS[i].domain
        /\ (\A i \in 1..Len(DOMAINS) : ~ContainsIgnoreCase(DOMAINS[i].key, Location))
              => domain = DefaultDomain

\* C8, amended: get_domain returns the domain of the pair whose key the
\* location contains when no pair inserted earlier has a contained key, and
\* the default domain when the location contains no key.
C8_FirstContainedKey ==
    Resolved =>
        /\ \A i \in 1..Len(DOMAINS) :
              ( /\ ContainsIgnoreCase(DOMAINS[i].key, Location)
                /\ \A j \in 1..(i - 1) : ~ContainsIgnoreCase(DOMAINS[j].key, Location) )
                 => domain = DOMAINS[i].domain
        /\ (\A i \in 1..Len(DOMAINS) : ~ContainsIgnoreCase(DOMAINS[i].key, Location))
              => domain = DefaultDomain

C8_Witness ==
    /\ Resolved
    /\ Len(DOMAINS) = 2
    /\ ContainsIgnoreCase(DOMAINS[1].key, Location)
    /\ ContainsIgnoreCase(DOMAINS[2].key, Location)
    /\ DOMAINS[1].key # << >>
    /\ Location # lower(Location)
    /\ DOMAINS[1].domain # DOMAINS[2].domain
    /\ domain = DOMAINS[1].domain

\* The Listings of the scenario's two fully-fielded cards on uk.indeed.com.
Listing1 ==
    [ title |-> << "D","e","v" >>, company |-> << "A","c","m","e" >>,
      location |-> << "R","e","m","o","t","e" >>, salary |-> << "$","9" >>,
      link |-> << "https://", "uk.indeed.com", "/viewjob?jk=", << "j","1" >> >> ]
Listing2 ==
    [ title |-> << "O","p","s" >>, company |-> << "A","c","m","e" >>,
      location |-> << "P","a","r","i","s" >>, salary |-> << "$","9" >>,
      link |-> << "https://", "uk.indeed.com", "/viewjob?jk=", << "j","2" >> >> ]

ListingOf(card) == IF card = FullCard1 THEN Listing1 ELSE Listing2

RECURSIVE FullListings(_)
\* The Listings of the fully-fielded cards of a card sequence, in its order.
FullListings(seq) ==
    IF seq = << >> THEN << >>
    ELSE IF Head(seq) = NoTitleCard THEN FullListings(Tail(seq))
    ELSE << ListingOf(Head(seq)) >> \o FullListings(Tail(seq))

\* The location the scenario names, "London, UK".
LondonCommaUK == London \o << ",", " " >> \o UK

\* The Reporter was handed these Listings under the name given, none for
\* Paris, and their count.
ScenarioReport(name, london) ==
    /\ Len(reports) = 1
    /\ reports[1].all_jobs_by_location =
          << [location |-> name, jobs |-> london],
             [location |-> Paris, jobs |-> << >>] >>
    /\ reports[1].total_jobs = Len(london)

\* C9 as stated: whatever the document order of London's three cards, the
\* Reporter receives both fully-fielded Listings for "London, UK", none for
\* Paris, and a total of 2.
C9_BothListingsAnyOrder ==
    pc = "done" =>
        /\ ScenarioReport(LondonCommaUK, FullListings(site.order))
        /\ reports[1].total_jobs = 2

\* C9, amended: with the locations "London UK" and "Paris" (a configured
\* location holds no comma), the Reporter receives for "London UK" the
\* Listings of the fully-fielded cards among the first two cards in document
\* order, none for Paris, and their count as total: both Listings and a
\* total of 2 when the card without a title is the third card, one Listing
\* and a total of 1 otherwise.
C9_ListingsWithinCap ==
    (pc = "done" /\ LOCATIONS = << LondonUK, Paris >>) =>
        /\ ScenarioReport(LondonUK, FullListings(SubSeq(site.order, 1, 2)))
        /\ reports[1].total_jobs = IF site.order[3] = NoTitleCard THEN 2 ELSE 1

C9_Witness ==
    /\ pc = "done"
    /\ LOCATIONS = << LondonUK, Paris >>
    /\ site.order = << FullCard2, FullCard1, NoTitleCard >>
    /\ ScenarioReport(LondonUK, << Listing2, Listing1 >>)
    /\ reports[1].total_jobs = 2

\* C10: at most one session is live at any point; no session is live during
\* the delay between locations, nor when the next session is about to be
\* built, and the session of a location that returned is closed.
C10_OneLiveSession ==
    /\ Cardinality({ j \in 1..Len(LOCATIONS) : sessions[j] = "live" }) <= 1
    /\ \A j \in 1..Len(LOCATIONS) : j > idx => sessions[j] = "none"
    /\ pc \in { "chrome", "delay" } =>
          \A j \in 1..Len(LOCATIONS) : sessions[j] # "live"
    /\ (idx >= 1 /\ pc \in { "return", "delay", "for", "done" }) =>
          \A j \in 1..idx : sessions[j] = "closed"

C10_Witness ==
    /\ pc = "chrome" /\ idx = 2
    /\ sessions[1] = "closed"
    /\ quitCalls = 0


\* What one step may do to all_results for C11: earlier entries stay, the
\* returning iteration adds the entry of its location at the end, entries
\* follow the configured order, and a completed run has one per location.
AppendsEntry ==
    /\ Len(all_results') >= Len(all_results)
    /\ \A i \in 1..Len(all_results) : all_results'[i] = all_results[i]
    /\ pc = "return" =>
          /\ Len(all_results') = Len(all_results) + 1
          /\ all_results'[Len(all_results')] = [location |-> Location, jobs |-> results]
    /\ pc # "return" => all_results' = all_results
    /\ \A i \in 1..Len(all_results') : all_results'[i].location = LOCATIONS[i]
    /\ pc' = "done" => Len(all_results') = Len(LOCATIONS)

\* C11: all_results is append-only and ordered: every iteration of main adds
\* the entry of its location, in configured order, no entry is modified or
\* replaced by a later iteration, and when main has completed there is one
\* entry per configured location, also for lists that repeat a location.
C11_AppendOnlyMapping == [][AppendsEntry]_vars

\* The state of the location state machine the pipeline is in.
Stage ==
    CASE pc \in { "chrome", "stealth" } -> "Init"
      [] pc = "navigate" -> "SessionReady"
      [] pc \in { "settle", "read_url" } -> "Navigated"
      [] pc \in { "blocked", "blocked_quit" } -> "Checked(Blocked)"
      [] pc = "locate" -> "Checked(Clear)"
      [] pc \in { "no_cards", "probe", "no_cards_quit" } -> "CardsLocated(0)"
      [] pc = "extract" -> "Extracting"
      [] pc \in { "parse_failed", "unexpected", "finally" } -> "Exiting"
      [] pc = "return" -> "Done"
      [] pc = "aborted" -> "Aborted"
      [] OTHER -> "Idle"

\* The transitions of the location state machine, exits included.
StageEdges ==
    { << "Idle", "Init" >>, << "Init", "SessionReady" >>,
      << "SessionReady", "Navigated" >>, << "Navigated", "Checked(Clear)" >>,
      << "Navigated", "Checked(Blocked)" >>,
      << "Checked(Clear)", "CardsLocated(0)" >>,
      << "Checked(Clear)", "Extracting" >>,
      << "Init", "Exiting" >>, << "SessionReady", "Exiting" >>,
      << "Navigated", "Exiting" >>, << "Checked(Blocked)", "Exiting" >>,
      << "CardsLocated(0)", "Exiting" >>, << "Extracting", "Exiting" >>,
      << "Exiting", "Done" >>, << "Done", "Idle" >> }

\* The orders the state machine imposes, on the state a step leads to.
StageOrder ==
    /\ pc' \in { "settle", "read_url" } => sessions'[idx'] = "live" /\ getCalls' = 1
    /\ pc' = "read_url" => pc = "settle"
    /\ (current_url' # current_url /\ current_url' # None) => pc = "read_url"
    /\ findCalls' > 0 => current_url' # None /\ ~is_blocked(current_url')
    /\ pc' = "locate" => pc = "read_url" /\ ~is_blocked(current_url')
    /\ pc' = "extract" => cards' # << >>
    /\ visited' # << >> => cards' # << >>

\* One step of a pipeline follows the state machine and ends in Done only.
FollowsStateMachine ==
    /\ Stage' # Stage =>
          \/ << Stage, Stage' >> \in StageEdges
          \/ Stage = "Idle" /\ pc = "for" /\ idx = Len(LOCATIONS)
    /\ StageOrder

\* C12: every location pipeline follows Init -> SessionReady -> Navigated ->
\* Checked(Clear) -> CardsLocated -> Extracting -> Done: navigation only on a
\* built session, the settle wait before the current URL is read, the card
\* locator only after a Clear verdict, extraction only with a located card,
\* early exits only from a build failure, a navigation failure, a Blocked
\* verdict or zero cards, and every pipeline ends in Done (none ends by an
\* exception that leaves it).
C12_StateMachine == [][FollowsStateMachine]_vars

\* What counts as a non-empty match of a strategy, per chain.
CardHit(o) == ~o.raises /\ o.found # << >>
TitleValue(o) == IF o.attr # None /\ o.attr # << >> THEN o.attr ELSE o.text
TitleHit(o) ==
    o.kind = "elem" /\ TitleValue(o) # None /\ strip(TitleValue(o)) # << >>
TextHit(o) == o.kind = "elem" /\ o.text # None /\ strip(o.text) # << >>

\* The earliest strategy of a chain with a non-empty match, 0 when none has.
Earliest(outs, Hit(_)) ==
    IF \E i \in 1..Len(outs) : Hit(outs[i])
    THEN CHOOSE i \in 1..Len(outs) :
            Hit(outs[i]) /\ \A j \in 1..(i - 1) : ~Hit(outs[j])
    ELSE 0

\* A text chain resolved value to the text of its earliest match after
\* exactly that many attempts, or made every attempt when nothing matches.
FirstTextWins(outs, value) ==
    LET h == Earliest(outs, TextHit)
    IN  IF h > 0 THEN value = strip(outs[h].text) /\ TextTried(outs) = h
        ELSE TextTried(outs) = Len(outs)

\* C13: every selector chain is evaluated in its listed order and the first
\* non-empty match wins.  The cards located are those of the earliest card
\* strategy (class-name chain, then CSS chain) with a non-empty list, found
\* after exactly that many find_elements calls, so no later strategy and no
\* CSS strategy after a class-name match is attempted; raising and empty
\* strategies only advance the chain.  The same for the title, company,
\* location and salary chains of every visited card.
C13_FirstSuccessWins ==
    /\ page # NoPage =>
          LET all == page.cls \o page.css
              names == job_card_selectors \o css_selectors
              h == Earliest(all, CardHit)
          IN  IF h > 0
              THEN /\ cards = all[h].found
                   /\ selector_used = names[h]
                   /\ findCalls = h
              ELSE /\ cards = << >>
                   /\ selector_used = NoneName
                   /\ findCalls = Len(all)
    /\ page = NoPage => findCalls = 0 /\ cards = << >>
    /\ \A m \in 1..Len(emitted) :
          LET card == cards[emitted[m]]
              h == Earliest(card.title, TitleHit)
          IN  /\ h > 0
              /\ results[m].title = strip(TitleValue(card.title[h]))
              /\ TitleTried(card.title) = h
              /\ FirstTextWins(card.company, results[m].company)
              /\ FirstTextWins(card.location, results[m].location)
              /\ FirstTextWins(card.salary, results[m].salary)
    /\ \A k \in 1..Len(visited) :
          LET card == cards[visited[k]]
              h == Earliest(card.title, TitleHit)
          IN  /\ TitleTried(card.title) = IF h > 0 THEN h ELSE Len(title_selectors)
              /\ h = 0 => \A m \in 1..Len(emitted) : emitted[m] # visited[k]

C13_Witness ==
    /\ pc = "return" /\ page # NoPage
    /\ CardHit(page.cls[2]) /\ CardHit(page.cls[4])
    /\ findCalls = 2 /\ selector_used = "job_seen_beacon"
    /\ cards = << FullCard2 >>
    /\ TitleHit(FullCard2.title[3]) /\ TitleHit(FullCard2.title[6])
    /\ Len(results) = 1
    /\ results[1].title = << "O","p","s" >>
    /\ results[1].company = Acme

\* A text chain that leaves its variable at None: no strategy matches and
\* the last element found has no text string.
EndsOnNone(outs) ==
    /\ Earliest(outs, TextHit) = 0
    /\ \E i \in 1..Len(outs) :
          /\ outs[i].kind = "elem" /\ outs[i].text = None
          /\ \A j \in (i + 1)..Len(outs) : outs[j].kind = "raise"

\* Extracting the card raises an exception: its title resolves and building
\* the Listing fails on a field without a string.
ExtractionRaises(card) ==
    /\ Earliest(card.title, TitleHit) > 0
    /\ EndsOnNone(card.company) \/ EndsOnNone(card.location) \/ EndsOnNone(card.salary)

InSeq(x, seq) == \E m \in 1..Len(seq) : seq[m] = x

\* One step keeps card exceptions to their card.
IsolatesCard ==
    /\ pc # "for" =>
          /\ Len(results') >= Len(results)
          /\ \A m \in 1..Len(results) : results'[m] = results[m]
    /\ ( /\ pc = "extract" /\ card_i < Len(CappedCards)
         /\ ExtractionRaises(CappedCards[card_i + 1]) ) =>
          /\ results' = results /\ emitted' = emitted
          /\ visited' = Append(visited, card_i + 1)
          /\ pc' = "extract" /\ raised' = raised /\ debugSent' = debugSent
    /\ (pc' = "return" /\ cards' # << >>) =>
          /\ Len(visited') = Len(SliceTo(cards', MAX_JOBS_PER_LOCATION))
          /\ \A k \in 1..Len(visited') :
                LET card == cards'[visited'[k]]
                IN  /\ ExtractionRaises(card) => ~InSeq(visited'[k], emitted')
                    /\ (Earliest(card.title, TitleHit) > 0 /\ ~ExtractionRaises(card))
                          => InSeq(visited'[k], emitted')

\* C14: an exception raised while extracting a card produces no Listing for
\* that card, leaves the Listings of earlier cards unchanged, and every
\* later card within the cap is still visited and, when it has a title and
\* raises nothing, extracted.
C14_CardIsolation == [][IsolatesCard]_vars

C14_Witness ==
    /\ pc = "return"
    /\ cards = << FullCard1, NullTextCard, FullCard1 >>
    /\ ExtractionRaises(cards[2])
    /\ visited = << 1, 2, 3 >>
    /\ emitted = << 1, 3 >>
    /\ Len(results) = 2 /\ debugSent = << >>

\* The DebugTrace of the current location records a navigation error.
NavigationErrorTraced ==
    InSeq(Msg("Unexpected error: ", << "get" >>), debug_messages)

\* What a navigation failure leads to, short of the orchestrator going on.
NavigationFailureCaught ==
    /\ (pc = "navigate" /\ raised' = "get") =>
          pc' = "unexpected" /\ results' = << >> /\ ~NavigationErrorTraced'
    /\ (pc = "unexpected" /\ raised = "get") =>
          /\ debug_messages' =
                Append(debug_messages, Msg("Unexpected error: ", << "get" >>))
          /\ raised' = "none" /\ pc' = "finally"
    /\ NavigationErrorTraced' =>
          /\ findCalls' = 0 /\ cards' = << >> /\ visited' = << >>
          /\ results' = << >>
          /\ raised' # "get"
          /\ pc' \in { "delay", "for", "done" } => StoredJobs' = << >>

\* C15: an exception of driver.get is caught at the boundary of the location
\* pipeline: it is recorded in the location's DebugTrace, the LocationResult
\* is empty, the card locator is never invoked, no exception reaches main,
\* and main goes on to the next configured location.
C15_NavigationFailureContained ==
    [][ /\ NavigationFailureCaught
        /\ NavigationErrorTraced' => pc' # "aborted" ]_vars

BlockReason == Msg("Bot detection triggered - captcha or block page", << >>)

\* The sentinel reported Blocked and the screenshot of line 237 failed.
BlockedAndScreenshotFailed ==
    /\ current_url # None /\ HasBlockSignature(current_url)
    /\ InSeq(BlockReason, debug_messages)
    /\ InSeq(Msg("Unexpected error: ", << "screenshot" >>), debug_messages)

\* C16: when the sentinel reports Blocked and the screenshot capture fails,
\* the failure is swallowed and does not mask the block signal: the pipeline
\* returns an empty result without a card locator call, and the block reason
\* has been handed to send_debug_screenshot for the location.
C16_BlockNotMasked ==
    (pc = "return" /\ BlockedAndScreenshotFailed) =>
        /\ results = << >> /\ findCalls = 0
        /\ \E i \in 1..Len(debugSent) : InSeq(BlockReason, debugSent[i])

\* A line of a DebugTrace that carries the given URL.
MentionsUrl(line, u) == line.arg = u

\* C17: on a Blocked outcome every trace handed to send_debug_screenshot for
\* the location contains the detection reason and the URL that matched the
\* block signature.
C17_BlockedTraceHasUrl ==
    (current_url # None /\ HasBlockSignature(current_url)) =>
        \A i \in 1..Len(debugSent) :
           /\ InSeq(BlockReason, debugSent[i])
           /\ \E m \in 1..Len(debugSent[i]) : MentionsUrl(debugSent[i][m], current_url)

\* The positions of the table whose key the lower-cased location contains.
ContainedKeys ==
    { i \in 1..Len(DOMAINS) : Contains(DOMAINS[i].key, lower(Location)) }

\* The step that calls get_domain: its result is a function of the table
\* and the location alone, and nothing but the caller's locals changes.
ResolvesDomain ==
    pc = "navigate" =>
        /\ IF ContainedKeys = { } THEN domain' = DefaultDomain
           ELSE \E i \in ContainedKeys :
                   /\ \A j \in ContainedKeys : i <= j
                   /\ domain' = DOMAINS[i].domain
        /\ domain' \in { DOMAINS[i].domain : i \in 1..Len(DOMAINS) } \cup { DefaultDomain }
        /\ url'[2] = domain'
        /\ UNCHANGED << LOCATIONS, DOMAINS, MAX_JOBS_PER_LOCATION, site, idx,
                        all_results, sessions, results, debug_messages, reports >>

\* C18: get_domain is total, deterministic and free of side effects: for any
\* location, the empty string included, it returns the domain of the first
\* key in insertion order that the lower-cased location contains, and
\* "www.indeed.com" when it contains none; the result depends on the table
\* and the location only, and the call changes neither.
C18_GetDomainTotal == [][ResolvesDomain]_vars

C18_Witness ==
    /\ Resolved
    /\ Location = << >>
    /\ Len(DOMAINS) = 2
    /\ DOMAINS[1].key = << "u" >> /\ DOMAINS[2].key = << >>
    /\ DOMAINS[1].domain # DOMAINS[2].domain
    /\ domain = DOMAINS[2].domain
    /\ url[2] = domain

\* A card that yields a Listing: its title resolves and nothing raises.
Eligible(card) ==
    Earliest(card.title, TitleHit) > 0 /\ ~ExtractionRaises(card)

\* After a step, results is the in-order subsequence of the visited cards
\* made of the eligible ones, earlier Listings are untouched, and a finished
\* loop has visited the first n cards.
SubsequenceOfFirst(n) ==
    /\ pc # "for" =>
          /\ Len(results) <= Len(results') /\ Len(results') <= Len(results) + 1
          /\ \A m \in 1..Len(results) : results'[m] = results[m]
    /\ \A k \in 1..Len(visited') : visited'[k] = k
    /\ Len(results') = Len(emitted')
    /\ \A m \in 1..(Len(emitted') - 1) : emitted'[m] < emitted'[m + 1]
    /\ \A k \in 1..Len(visited') :
          Eligible(cards'[k]) <=> InSeq(k, emitted')
    /\ \A m \in 1..Len(emitted') :
          /\ InSeq(emitted'[m], visited')
          /\ LET card == cards'[emitted'[m]]
             IN  results'[m].title =
                    strip(TitleValue(card.title[Earliest(card.title, TitleHit)]))
    /\ (pc' = "return" /\ cards' # << >>) => Len(visited') = n

\* C19 as stated: a LocationResult is exactly the in-order subsequence of
\* the first min(K, N) located cards made of the cards whose title resolved
\* and whose extraction raised nothing; each visited card gives at most one
\* Listing and no Listing is changed or removed once appended.
C19_FirstMinKN ==
    [][SubsequenceOfFirst(Max(Min(MAX_JOBS_PER_LOCATION, Len(cards)), 0))]_vars

\* C19, amended: the same of the cards of the slice cards[:K], that is the
\* first min(K, N) cards for K >= 0 and the first max(N + K, 0) for K < 0.
C19_SubsequenceOfSlice ==
    [][SubsequenceOfFirst(IF MAX_JOBS_PER_LOCATION >= 0
                          THEN Min(MAX_JOBS_PER_LOCATION, Len(cards))
                          ELSE Max(Len(cards) + MAX_JOBS_PER_LOCATION, 0))]_vars

C19_Witness ==
    /\ pc = "return"
    /\ MAX_JOBS_PER_LOCATION = 2
    /\ cards = << NullTextCard, FullCard1, FullCard1 >>
    /\ visited = << 1, 2 >>
    /\ emitted = << 2 >>
    /\ Len(results) = 1 /\ results[1].title = Dev

\* The trace records an exception handled at the level of the location.
LocationErrorTraced ==
    \E m \in 1..Len(debug_messages) :
       debug_messages[m].msg \in { "Unexpected error: ", "Failed to parse results: " }

\* C20: send_debug_screenshot is invoked only on the Blocked path, the
\* zero-cards path and the location-level exception paths; once at least one
\* card is located and no such exception occurs it is never invoked, also
\* when every visited card is dropped for lack of a title: the location then
\* returns an empty result and no DebugTrace has been delivered.
C20_DebugSinkOnlyOnFailure ==
    /\ debugSent # << >> =>
          \/ current_url # None /\ HasBlockSignature(current_url)
          \/ page # NoPage /\ cards = << >>
          \/ LocationErrorTraced
    /\ (cards # << >> /\ ~LocationErrorTraced) => debugSent = << >>
    /\ (pc = "return" /\ cards # << >> /\ emitted = << >> /\ ~LocationErrorTraced) =>
          results = << >> /\ debugSent = << >> /\ debug_messages = << >>

C20_Witness ==
    /\ pc = "return"
    /\ cards = << NoTitleCard, BlankTitleCard >>
    /\ visited = << 1, 2 >>
    /\ results = << >>
    /\ debugSent = << >>

=============================================================================
